---- MODULE Spec2Model ----
(***************************************************************************)
(* The create-parser filter hook of misago.parser.hooks.create_parser:     *)
(* plugins register filter functions on the hook, and every invocation of  *)
(* the hook composes them around the action it is given and runs the       *)
(* composed call.  Python lists are objects: a filter that appends to      *)
(* block_patterns changes the list its caller holds, so the argument       *)
(* lists live in a heap and the calls carry references to them.            *)
(***************************************************************************)
EXTENDS Integers, Sequences, FiniteSets, TLC

VARIABLES
    filters,    \* the hook's registered filter functions, in registration order
    universe,   \* the filter functions the loaded plugins define
    callers,    \* the threads that invoke the hook
    pc,         \* per thread: "idle", "running", "returned" or "raised"
    call,       \* per thread: the arguments its caller gave to the hook
    seen,       \* per thread: how many filters were registered when it invoked
    stack,      \* per thread: the frames of the composed call, innermost last
    ret,        \* per thread: the value or error travelling back to the top frame
    heap,       \* per thread: the contents of the caller's three list objects
    log,        \* per thread: the callables that ran, in the order they started
    built,      \* per thread: the Parsers constructed, in order
    result,     \* per thread: what the hook gave back to its caller
    registered, \* the filter functions handed to append_filter, call by call
    urlconf,    \* the URL configuration the test client runs under
    responses   \* the requests made so far, each with the response it got

hook == <<filters, universe, callers, pc, call, seen, stack, ret, heap, log,
          built, result, registered>>

http == <<urlconf, responses>>

vars == <<hook, http>>

(* ---------------------------------------------------------------- bounds *)

MaxFilters == 3

MaxRequests == 2

(* ---------------------------------------------------------------- values *)

Invocations == {1, 2}

\* The filter functions of the model.  "append" is the docstring's
\* create_parser_with_custom_pattern; the others are the behaviours the
\* filter contract allows: delegate unchanged, return an own Parser, raise,
\* call the action twice.
FilterNames == {"pass", "append", "short", "raise", "twice"}

Delegating == {"pass", "append"}

BaseActions == {"create_parser", "test_double"}

\* A callable object: the function's name and, for a filter on the hook, the
\* number of the registration call that put it there (0 for a base action).
Callable(name, reg) == [name |-> name, reg |-> reg]

ListNames == {"block_patterns", "inline_patterns", "post_processors"}

PluginPattern == [owner |-> 0, name |-> "PluginPattern"]

Contexts(t) == {[owner |-> t, name |-> "context"]}

BlockChoices(t) == {<<>>, <<[owner |-> t, name |-> "block1"]>>}

InlineChoices(t) == {<<[owner |-> t, name |-> "inline1"]>>}

PostChoices(t) == {<<[owner |-> t, name |-> "post1"]>>}

Ref(t, slot) == [owner |-> t, slot |-> slot]

None == [tag |-> "none"]

Error(type, by) == [tag |-> "error", type |-> type, by |-> by]

EmptyHeap == [n \in ListNames |-> <<>>]

NoCall == [action |-> "none", context |-> None]

(* ------------------------------------------------- signatures and binding *)

\* CreateParserHookAction.__call__(self, context, *, block_patterns,
\* inline_patterns, post_processors): one positional argument, three
\* keyword-only ones.
ActionSignature ==
    [positional |-> 1, keywords |-> ListNames, varkw |-> FALSE]

\* CreateParserHookFilter.__call__(self, action, context, *, ...): the
\* action is bound by the wrapper, the rest is the action's signature.
FilterSignature ==
    [positional |-> 1, keywords |-> ListNames, varkw |-> FALSE]

\* create_parser_with_custom_pattern(action, context, *, block_patterns,
\* **kwargs): names block_patterns alone, takes the rest as **kwargs.
CustomPatternSignature ==
    [positional |-> 1, keywords |-> {"block_patterns"}, varkw |-> TRUE]

SignatureOf(name) ==
    IF name \in BaseActions THEN ActionSignature
    ELSE IF name = "append" THEN CustomPatternSignature
    ELSE FilterSignature

\* Python's binding of a call's arguments to a signature; a call that does
\* not bind raises TypeError before the callee's body runs.
Binds(sig, args) ==
    /\ Len(args.pos) = sig.positional
    /\ sig.keywords \subseteq DOMAIN args.kw
    /\ (sig.varkw \/ DOMAIN args.kw \subseteq sig.keywords)

(* ------------------------------------------------------- chain composition *)

\* A composed action is the sequence <<action, F1, ..., Fk>>: the base action
\* wrapped by F1, that wrapped by F2, and so on; the last element is the
\* callable that gets control, and the action it is given is the rest.
\* Faulty variant: the new filter is put innermost, next to the base action.
Mutant_wrap_inside(action, next_filter) ==
    <<action[1], next_filter>> \o Tail(action)

reduce_filter(action, next_filter) == Append(action, next_filter)

RECURSIVE reduce(_, _)
reduce(fs, action) ==
    IF fs = <<>> THEN action
    ELSE reduce_filter(reduce(SubSeq(fs, 1, Len(fs) - 1), action), fs[Len(fs)])

get_reduced_action(fs, action) == reduce(fs, <<Callable(action, 0)>>)

Callee(fn) == fn[Len(fn)]

Inner(fn) == SubSeq(fn, 1, Len(fn) - 1)

Frame(fn, args) == [fn |-> fn, args |-> args, calls |-> 0, entered |-> FALSE]

\* FilterHook.__call__(action, *args, **kwargs): compose the chain from the
\* filters as they are now and call it with the arguments as given.
FilterHook_call(fs, action, pos, kw) ==
    Frame(get_reduced_action(fs, action), [pos |-> pos, kw |-> kw])

\* Faulty variant: the three lists are forwarded positionally.
Mutant_positional(fs, action, context, block_patterns, inline_patterns, post_processors) ==
    FilterHook_call(fs, action,
        <<context, block_patterns, inline_patterns, post_processors>>,
        <<>>)

\* Faulty variant: block_patterns and inline_patterns change places.
Mutant_swapped(fs, action, context, block_patterns, inline_patterns, post_processors) ==
    FilterHook_call(fs, action, <<context>>,
        [block_patterns  |-> inline_patterns,
         inline_patterns |-> block_patterns,
         post_processors |-> post_processors])

\* Faulty variant: the chain is built around the built-in constructor, not
\* around the action the caller passed.
Mutant_default_action(fs, action, context, block_patterns, inline_patterns, post_processors) ==
    FilterHook_call(fs, "create_parser", <<context>>,
        [block_patterns  |-> block_patterns,
         inline_patterns |-> inline_patterns,
         post_processors |-> post_processors])

\* Faulty variant: every call is given the block list of the first caller.
Mutant_shared_patterns(fs, action, context, block_patterns, inline_patterns, post_processors) ==
    FilterHook_call(fs, action, <<context>>,
        [block_patterns  |-> [block_patterns EXCEPT !.owner = 1],
         inline_patterns |-> inline_patterns,
         post_processors |-> post_processors])

\* CreateParserHook.__call__: forwards the action and the context
\* positionally and the three lists by name to FilterHook.__call__.
CreateParserHook_call(fs, action, context, block_patterns, inline_patterns, post_processors) ==
    FilterHook_call(fs, action, <<context>>,
        [block_patterns  |-> block_patterns,
         inline_patterns |-> inline_patterns,
         post_processors |-> post_processors])

(* ------------------------------------------------------------ registration *)

\* Faulty variant: the filter goes to the front of the list.
Mutant_prepend_filter(fs, f) == <<f>> \o fs

\* Faulty variant: a function already on the list is not added again.
Mutant_unique_filter(fs, f) ==
    IF \E i \in 1..Len(fs) : fs[i].name = f.name THEN fs ELSE Append(fs, f)

\* FilterHook.append_filter(filter_): the decorator of the docstring's
\* example; the filter goes to the end of the list.
append_filter(fs, f) == Append(fs, f)

Register(f) ==
    /\ f \in universe
    /\ Len(registered) < MaxFilters
    /\ filters' = append_filter(filters, Callable(f, Len(registered) + 1))
    /\ registered' = Append(registered, f)
    /\ UNCHANGED <<universe, callers, pc, call, seen, stack, ret, heap, log,
                   built, result>>
    /\ UNCHANGED http

(* -------------------------------------------------------------- invocation *)

Deref(h, ref) == h[ref.owner][ref.slot]

Parser(by, h, args) ==
    [tag             |-> "parser",
     by              |-> by,
     context         |-> args.pos[1],
     block_patterns  |-> Deref(h, args.kw.block_patterns),
     inline_patterns |-> Deref(h, args.kw.inline_patterns),
     post_processors |-> Deref(h, args.kw.post_processors)]

\* The caller's  create_parser_hook(action, context, block_patterns=B,
\* inline_patterns=I, post_processors=P)  with lists it has just built.
Invoke(t) ==
    /\ t \in callers
    /\ pc[t] = "idle"
    /\ \E action \in BaseActions, context \in Contexts(t),
          B \in BlockChoices(t), I \in InlineChoices(t), P \in PostChoices(t) :
          /\ heap' = [heap EXCEPT ![t] = [block_patterns  |-> B,
                                          inline_patterns |-> I,
                                          post_processors |-> P]]
          /\ call' = [call EXCEPT ![t] = [action          |-> action,
                                          context         |-> context,
                                          block_patterns  |-> B,
                                          inline_patterns |-> I,
                                          post_processors |-> P]]
          /\ stack' = [stack EXCEPT ![t] =
                 <<CreateParserHook_call(filters, action, context,
                       Ref(t, "block_patterns"), Ref(t, "inline_patterns"),
                       Ref(t, "post_processors"))>>]
    /\ seen' = [seen EXCEPT ![t] = Len(filters)]
    /\ pc' = [pc EXCEPT ![t] = "running"]
    /\ log' = [log EXCEPT ![t] = <<>>]
    /\ built' = [built EXCEPT ![t] = <<>>]
    /\ result' = [result EXCEPT ![t] = None]
    /\ UNCHANGED <<filters, universe, callers, ret, registered>>
    /\ UNCHANGED http

Top(t) == stack[t][Len(stack[t])]

Below(t) == SubSeq(stack[t], 1, Len(stack[t]) - 1)

\* Faulty variant: the `return` is missing, the caller gets None.
Mutant_no_return(value) == IF value.tag = "error" THEN value ELSE None

\* Faulty variant: an error from the chain is caught and a default Parser
\* returned in its place.
Mutant_swallow(value) ==
    IF value.tag = "error"
    THEN [tag |-> "parser", by |-> Callable("create_parser", 0),
          context |-> None, block_patterns |-> <<>>, inline_patterns |-> <<>>,
          post_processors |-> <<>>]
    ELSE value

\* CreateParserHook.__call__ gives its caller what super().__call__ gave it:
\* `return super().__call__(...)`, with no try around it.
CreateParserHook_result(value) == value

\* The top frame ends with `value` (a Parser or an error): it goes to the
\* frame below, or through the hook to the hook's caller when there is none.
Leave(t, value) ==
    IF Len(stack[t]) = 1
    THEN /\ stack' = [stack EXCEPT ![t] = <<>>]
         /\ ret' = [ret EXCEPT ![t] = None]
         /\ result' = [result EXCEPT ![t] = CreateParserHook_result(value)]
         /\ pc' = [pc EXCEPT ![t] =
                IF CreateParserHook_result(value).tag = "error"
                THEN "raised" ELSE "returned"]
    ELSE /\ stack' = [stack EXCEPT ![t] = Below(t)]
         /\ ret' = [ret EXCEPT ![t] = value]
         /\ UNCHANGED <<result, pc>>

\* The top frame calls the action it was given with `args`.
Delegate(t, args) ==
    /\ stack' = [stack EXCEPT ![t] =
           Append(Below(t), [Top(t) EXCEPT !.entered = TRUE, !.calls = @ + 1])
           \o <<Frame(Inner(Top(t).fn), args)>>]
    /\ ret' = [ret EXCEPT ![t] = None]
    /\ UNCHANGED <<result, pc>>

Named(kw) ==
    [block_patterns  |-> kw.block_patterns,
     inline_patterns |-> kw.inline_patterns,
     post_processors |-> kw.post_processors]

\* action(context, block_patterns=block_patterns, **kwargs)
Forwarded(kw) ==
    [n \in {"block_patterns"} |-> kw.block_patterns]
        @@ [n \in DOMAIN kw \ {"block_patterns"} |-> kw[n]]

\* A call of the base action: its arguments are bound to its signature
\* (TypeError when they do not fit), then it builds the Parser from them.
RunAction(t) ==
    /\ pc[t] = "running"
    /\ ~Top(t).entered
    /\ Callee(Top(t).fn).name \in BaseActions
    /\ IF ~Binds(ActionSignature, Top(t).args)
       THEN /\ Leave(t, Error("TypeError", Callee(Top(t).fn)))
            /\ UNCHANGED <<log, built>>
       ELSE /\ log' = [log EXCEPT ![t] = Append(@, Callee(Top(t).fn))]
            /\ built' = [built EXCEPT ![t] =
                   Append(@, Parser(Callee(Top(t).fn), heap, Top(t).args))]
            /\ Leave(t, Parser(Callee(Top(t).fn), heap, Top(t).args))
    /\ UNCHANGED <<filters, universe, callers, call, seen, heap, registered>>
    /\ UNCHANGED http

\* The docstring's filter: block_patterns.append(PluginPattern), then
\* return action(context, block_patterns=block_patterns, **kwargs).
create_parser_with_custom_pattern(t, args) ==
    /\ heap' = [heap EXCEPT
           ![args.kw.block_patterns.owner][args.kw.block_patterns.slot] =
               Append(@, PluginPattern)]
    /\ Delegate(t, [pos |-> <<args.pos[1]>>, kw |-> Forwarded(args.kw)])
    /\ UNCHANGED built

\* A filter that calls the action with what it was given and returns what
\* the action returned; "twice" does so a second time (see Resume).
delegating_filter(t, args) ==
    /\ Delegate(t, [pos |-> <<args.pos[1]>>, kw |-> Named(args.kw)])
    /\ UNCHANGED <<heap, built>>

\* A filter that returns a Parser of its own and never calls the action.
short_circuit_filter(t, self, args) ==
    /\ built' = [built EXCEPT ![t] = Append(@, Parser(self, heap, args))]
    /\ Leave(t, Parser(self, heap, args))
    /\ UNCHANGED heap

\* A filter that raises.
raising_filter(t, self) ==
    /\ Leave(t, Error("PluginError", self))
    /\ UNCHANGED <<heap, built>>

FilterBody(t, self, args) ==
    \/ self.name \in {"pass", "twice"} /\ delegating_filter(t, args)
    \/ self.name = "append" /\ create_parser_with_custom_pattern(t, args)
    \/ self.name = "short" /\ short_circuit_filter(t, self, args)
    \/ self.name = "raise" /\ raising_filter(t, self)

\* A call of a filter: reduced_filter(*args, **kwargs) calls
\* next_filter(action, *args, **kwargs); the arguments are bound to the
\* filter's signature (TypeError when they do not fit) and its body runs.
RunFilter(t) ==
    /\ pc[t] = "running"
    /\ ~Top(t).entered
    /\ Callee(Top(t).fn).name \in FilterNames
    /\ IF ~Binds(SignatureOf(Callee(Top(t).fn).name), Top(t).args)
       THEN /\ Leave(t, Error("TypeError", Callee(Top(t).fn)))
            /\ UNCHANGED <<log, heap, built>>
       ELSE /\ log' = [log EXCEPT ![t] = Append(@, Callee(Top(t).fn))]
            /\ FilterBody(t, Callee(Top(t).fn), Top(t).args)
    /\ UNCHANGED <<filters, universe, callers, call, seen, registered>>
    /\ UNCHANGED http

\* The action a filter called has come back: the filter returns what it got
\* (an error passes through it), or, for "twice", calls the action again.
Resume(t) ==
    /\ pc[t] = "running"
    /\ Top(t).entered
    /\ ret[t] # None
    /\ IF /\ ret[t].tag = "parser"
          /\ Callee(Top(t).fn).name = "twice"
          /\ Top(t).calls = 1
       THEN Delegate(t, [pos |-> <<Top(t).args.pos[1]>>,
                         kw  |-> Named(Top(t).args.kw)])
       ELSE Leave(t, ret[t])
    /\ UNCHANGED <<filters, universe, callers, call, seen, heap, log, built,
                   registered>>
    /\ UNCHANGED http

\* The caller has taken the hook's result and drops its lists.
Finish(t) ==
    /\ pc[t] \in {"returned", "raised"}
    /\ pc' = [pc EXCEPT ![t] = "idle"]
    /\ call' = [call EXCEPT ![t] = NoCall]
    /\ seen' = [seen EXCEPT ![t] = 0]
    /\ heap' = [heap EXCEPT ![t] = EmptyHeap]
    /\ log' = [log EXCEPT ![t] = <<>>]
    /\ built' = [built EXCEPT ![t] = <<>>]
    /\ result' = [result EXCEPT ![t] = None]
    /\ UNCHANGED <<filters, universe, callers, stack, ret, registered>>
    /\ UNCHANGED http

(* ---------------------------------------------------------- specifications *)

InitHook ==
    /\ filters = <<>>
    /\ registered = <<>>
    /\ pc = [t \in Invocations |-> "idle"]
    /\ call = [t \in Invocations |-> NoCall]
    /\ seen = [t \in Invocations |-> 0]
    /\ stack = [t \in Invocations |-> <<>>]
    /\ ret = [t \in Invocations |-> None]
    /\ heap = [t \in Invocations |-> EmptyHeap]
    /\ log = [t \in Invocations |-> <<>>]
    /\ built = [t \in Invocations |-> <<>>]
    /\ result = [t \in Invocations |-> None]

(* -------------------------------------------------------------- error pages *)

\* The URL names the tests reverse: the forum's own and the host site's.
MisagoUrls == {"forum_index", "raise_misago_403", "raise_misago_404"}

SiteUrls == {"raise_403", "raise_404"}

Urls == MisagoUrls \cup SiteUrls

\* The two URL configurations of the test project.
UrlConfs == {"urls", "urlswitherrorhandlers"}

Handlers == {"mock_custom_403_error_page", "mock_custom_404_error_page"}

Response(status, content) == [status |-> status, content |-> content]

\* What the view behind each URL does.
View(url) ==
    IF url \in {"raise_misago_403", "raise_403"} THEN "PermissionDenied"
    ELSE IF url \in {"raise_misago_404", "raise_404"} THEN "Http404"
    ELSE "ok"

is_request_to_misago(url) == url \in MisagoUrls

\* The forum's own error pages.
permission_denied(url) == Response(403, "Misago 403")

page_not_found(url) == Response(404, "Misago 404")

\* Faulty variant: the decorated handler answers every request.
Mutant_always_custom(url, misago_page, custom_page) == custom_page

\* The decorator the forum's error views and the site's handlers share: a
\* request for one of the forum's URLs gets the forum's page, any other
\* request gets the decorated handler's.
shared_exception_handler(url, misago_page, custom_page) ==
    IF is_request_to_misago(url) THEN misago_page ELSE custom_page

mock_custom_403_error_page(url) ==
    shared_exception_handler(url, permission_denied(url),
                             Response(403, "Custom 403"))

mock_custom_404_error_page(url) ==
    shared_exception_handler(url, page_not_found(url),
                             Response(404, "Custom 404"))

\* The handlers a URL configuration names; without its own, the forum's
\* pages serve the forum's URLs and the framework's the rest.
handler403(conf, url) ==
    IF conf = "urlswitherrorhandlers" THEN mock_custom_403_error_page(url)
    ELSE shared_exception_handler(url, permission_denied(url),
                                  Response(403, "403 Forbidden"))

handler404(conf, url) ==
    IF conf = "urlswitherrorhandlers" THEN mock_custom_404_error_page(url)
    ELSE shared_exception_handler(url, page_not_found(url),
                                  Response(404, "Not Found"))

\* self.client.get(reverse(url))
client_get(conf, url) ==
    IF View(url) = "PermissionDenied" THEN handler403(conf, url)
    ELSE IF View(url) = "Http404" THEN handler404(conf, url)
    ELSE Response(200, "forum index")

\* The test client requests a URL.
ClientGet(url) ==
    /\ Len(responses) < MaxRequests
    /\ responses' = Append(responses,
           [via |-> "client", url |-> url, response |-> client_get(urlconf, url)])
    /\ UNCHANGED <<urlconf, hook>>

\* A test calls one of the site's decorated handlers with a request it built
\* for a URL.
CallHandler(handler, url) ==
    /\ Len(responses) < MaxRequests
    /\ urlconf = "urlswitherrorhandlers"
    /\ responses' = Append(responses,
           [via |-> handler, url |-> url,
            response |-> IF handler = "mock_custom_403_error_page"
                         THEN mock_custom_403_error_page(url)
                         ELSE mock_custom_404_error_page(url)])
    /\ UNCHANGED <<urlconf, hook>>

InitHttp ==
    /\ urlconf = "urls"
    /\ responses = <<>>

InitPages ==
    /\ InitHook
    /\ universe = {}
    /\ callers = {}
    /\ urlconf \in UrlConfs
    /\ responses = <<>>

NextPages ==
    \/ \E url \in Urls : ClientGet(url)
    \/ \E handler \in Handlers, url \in Urls : CallHandler(handler, url)

SpecPages == InitPages /\ [][NextPages]_vars

\* One caller, every kind of filter.
Init ==
    /\ InitHook
    /\ InitHttp
    /\ universe = FilterNames
    /\ callers = {1}

\* Two callers at once over filters that delegate.
InitConcurrent ==
    /\ InitHook
    /\ InitHttp
    /\ universe = Delegating
    /\ callers = Invocations

Next ==
    \/ \E f \in FilterNames : Register(f)
    \/ \E t \in Invocations : Invoke(t)
    \/ \E t \in Invocations : RunAction(t)
    \/ \E t \in Invocations : RunFilter(t)
    \/ \E t \in Invocations : Resume(t)
    \/ \E t \in Invocations : Finish(t)

Spec == Init /\ [][Next]_vars

SpecConcurrent == InitConcurrent /\ [][Next]_vars

Step(t) == RunAction(t) \/ RunFilter(t) \/ Resume(t)

\* A call runs to its end: a thread inside the hook keeps taking steps.
SpecFair == Init /\ [][Next]_vars /\ \A t \in Invocations : WF_vars(Step(t))

(* ------------------------------------------------------------- properties *)

Reverse(s) == [i \in 1..Len(s) |-> s[Len(s) + 1 - i]]

IsPrefix(s, r) == Len(s) <= Len(r) /\ SubSeq(r, 1, Len(s)) = s

Range(s) == {s[i] : i \in 1..Len(s)}

Count(s, x) == Cardinality({i \in 1..Len(s) : s[i] = x})

Repeat(x, n) == [i \in 1..n |-> x]

Done(t) == pc[t] \in {"returned", "raised"}

\* The filters that were registered when t invoked the hook, F1..Fn.
Snapshot(t) == SubSeq(filters, 1, seen[t])

BaseOf(t) == Callable(call[t].action, 0)

AllDelegate(t) == \A k \in 1..seen[t] : Snapshot(t)[k].name \in Delegating

\* The stages of a chain in which every filter delegates: Fn, ..., F1, base.
Stages(t) == Reverse(Snapshot(t)) \o <<BaseOf(t)>>

Appends(s) == Cardinality({i \in 1..Len(s) : s[i].name = "append"})

\* The Parser the base action builds from the caller's own arguments after
\* n appends of the plugin's pattern.
OwnParser(t, n) ==
    [tag             |-> "parser",
     by              |-> BaseOf(t),
     context         |-> call[t].context,
     block_patterns  |-> call[t].block_patterns \o Repeat(PluginPattern, n),
     inline_patterns |-> call[t].inline_patterns,
     post_processors |-> call[t].post_processors]

\* C1: with a non-empty filter list F1..Fn in which every filter delegates,
\* an invocation runs Fn, Fn-1, ..., F1 and then the base action, in that
\* order: what has run so far is always a prefix of that sequence, a
\* finished invocation has run all of it, and while the calls go inward
\* every stage that has started, except the newest, is a frame that has
\* called its action once.
C1_LastRegisteredRunsFirst ==
    \A t \in callers :
        (pc[t] # "idle" /\ seen[t] >= 1 /\ AllDelegate(t)) =>
            /\ IsPrefix(log[t], Stages(t))
            /\ pc[t] # "raised"
            /\ pc[t] = "returned" => log[t] = Stages(t)
            /\ (pc[t] = "running" /\ Len(stack[t]) >= Len(log[t])) =>
                   \A k \in 1..(Len(log[t]) - 1) :
                       /\ Callee(stack[t][k].fn) = log[t][k]
                       /\ stack[t][k].entered
                       /\ stack[t][k].calls = 1

C1_Witness ==
    \E t \in callers :
        /\ pc[t] = "returned"
        /\ seen[t] = MaxFilters
        /\ AllDelegate(t)
        /\ Snapshot(t)[1].name # Snapshot(t)[seen[t]].name
        /\ log[t][1] = Snapshot(t)[seen[t]]

\* C2: with no filter registered, the invocation runs the base action the
\* caller passed once, with the caller's context and lists, and returns the
\* Parser that run built.
C2_NoFiltersIsBaseAction ==
    \A t \in callers :
        (Done(t) /\ seen[t] = 0) =>
            /\ pc[t] = "returned"
            /\ log[t] = <<BaseOf(t)>>
            /\ built[t] = <<OwnParser(t, 0)>>
            /\ result[t] = built[t][1]

C2_Witness ==
    \E t \in callers :
        /\ pc[t] = "returned"
        /\ seen[t] = 0
        /\ call[t].block_patterns # <<>>
        /\ call[t].inline_patterns # call[t].block_patterns
        /\ result[t].block_patterns = call[t].block_patterns

\* What every stage of t's invocation is called with when nothing changes
\* the references: the caller's context and the caller's three list objects.
OwnArgs(t) ==
    [pos |-> <<call[t].context>>,
     kw  |-> [block_patterns  |-> Ref(t, "block_patterns"),
              inline_patterns |-> Ref(t, "inline_patterns"),
              post_processors |-> Ref(t, "post_processors")]]

SameArgs(a, b) ==
    /\ a.pos = b.pos
    /\ DOMAIN a.kw = DOMAIN b.kw
    /\ \A n \in DOMAIN a.kw : a.kw[n] = b.kw[n]

\* C3: when a filter Fk that returns a Parser of its own has run, no filter
\* registered before it and no base action has run or built anything, every
\* filter registered after it has run, and the finished invocation returns
\* the Parser Fk built last.
C3_ShortCircuit ==
    \A t \in callers : \A k \in 1..seen[t] :
        (/\ pc[t] # "idle"
         /\ Snapshot(t)[k].name = "short"
         /\ Snapshot(t)[k] \in Range(log[t])) =>
            /\ \A j \in 1..(k - 1) : Snapshot(t)[j] \notin Range(log[t])
            /\ BaseOf(t) \notin Range(log[t])
            /\ \A i \in 1..Len(built[t]) : built[t][i].by = Snapshot(t)[k]
            /\ \A j \in (k + 1)..seen[t] : Snapshot(t)[j] \in Range(log[t])
            /\ Done(t) =>
                   /\ pc[t] = "returned"
                   /\ result[t] = built[t][Len(built[t])]
                   /\ result[t].by = Snapshot(t)[k]

C3_Witness ==
    \E t \in callers :
        /\ pc[t] = "returned"
        /\ seen[t] = MaxFilters
        /\ Snapshot(t)[2].name = "short"
        /\ Snapshot(t)[1].name = "pass"
        /\ Snapshot(t)[seen[t]].name = "append"
        /\ result[t].by = Snapshot(t)[2]
        /\ Len(log[t]) = seen[t] - 1

\* C4: every stage is called with the caller's context and the caller's own
\* three list objects, by name; the block list holds the caller's patterns
\* followed by one plugin pattern for each run of the appending filter, the
\* inline list and the post-processor list stay as the caller supplied them,
\* so every Parser is built with them unchanged; and when every filter
\* delegates, the base action builds one Parser from the caller's arguments
\* with one plugin pattern per appending filter.
C4_ArgumentsPassThrough ==
    \A t \in callers :
        pc[t] # "idle" =>
            /\ \A i \in 1..Len(stack[t]) : SameArgs(stack[t][i].args, OwnArgs(t))
            /\ heap[t].block_patterns =
                   call[t].block_patterns \o Repeat(PluginPattern, Appends(log[t]))
            /\ heap[t].inline_patterns = call[t].inline_patterns
            /\ heap[t].post_processors = call[t].post_processors
            /\ \A i \in 1..Len(built[t]) :
                   /\ built[t][i].context = call[t].context
                   /\ built[t][i].inline_patterns = call[t].inline_patterns
                   /\ built[t][i].post_processors = call[t].post_processors
                   /\ IsPrefix(built[t][i].block_patterns, heap[t].block_patterns)
                   /\ IsPrefix(call[t].block_patterns, built[t][i].block_patterns)
            /\ (Done(t) /\ AllDelegate(t)) =>
                   /\ pc[t] = "returned"
                   /\ built[t] = <<OwnParser(t, Appends(Snapshot(t)))>>
                   /\ result[t] = built[t][1]

C4_Witness ==
    \E t \in callers :
        /\ pc[t] = "returned"
        /\ seen[t] >= 2
        /\ AllDelegate(t)
        /\ Snapshot(t)[1].name = "pass"
        /\ Snapshot(t)[seen[t]].name = "append"
        /\ call[t].block_patterns # <<>>
        /\ call[t].inline_patterns # <<>>
        /\ result[t].block_patterns = Append(call[t].block_patterns, PluginPattern)
        /\ result[t].inline_patterns = call[t].inline_patterns

\* C5: when a raising filter Fk has run, it is the last stage that ran, no
\* filter registered before it and no base action has run, no Parser was
\* built, the error is on its way out unchanged, the finished invocation has
\* raised exactly that error, and the plugin patterns the outer filters
\* appended before delegating are still in the caller's block list.
C5_ErrorPropagates ==
    \A t \in callers : \A k \in 1..seen[t] :
        (/\ pc[t] # "idle"
         /\ Snapshot(t)[k].name = "raise"
         /\ Snapshot(t)[k] \in Range(log[t])) =>
            /\ log[t][Len(log[t])] = Snapshot(t)[k]
            /\ \A j \in 1..(k - 1) : Snapshot(t)[j] \notin Range(log[t])
            /\ BaseOf(t) \notin Range(log[t])
            /\ built[t] = <<>>
            /\ heap[t].block_patterns =
                   call[t].block_patterns \o Repeat(PluginPattern, Appends(log[t]))
            /\ pc[t] = "running" => ret[t] = Error("PluginError", Snapshot(t)[k])
            /\ Done(t) =>
                   /\ pc[t] = "raised"
                   /\ result[t] = Error("PluginError", Snapshot(t)[k])

C5_Witness ==
    \E t \in callers :
        /\ pc[t] = "raised"
        /\ seen[t] = MaxFilters
        /\ Snapshot(t)[2].name = "raise"
        /\ Snapshot(t)[seen[t]].name = "append"
        /\ log[t] = <<Snapshot(t)[3], Snapshot(t)[2]>>
        /\ heap[t].block_patterns = Append(call[t].block_patterns, PluginPattern)

Owned(t, list) == \A i \in 1..Len(list) : list[i].owner \in {t, 0}

\* C6: with two callers running at once, every stage of an invocation is
\* called with that invocation's own context and list objects, its lists
\* and its Parsers hold only its caller's items and the plugin patterns its
\* own filters appended, and it returns the Parser a run on its own would:
\* its caller's arguments with one plugin pattern per appending filter.
C6_ConcurrentInvocationsIsolated ==
    \A t \in callers :
        pc[t] # "idle" =>
            /\ \A i \in 1..Len(stack[t]) : SameArgs(stack[t][i].args, OwnArgs(t))
            /\ \A n \in ListNames : Owned(t, heap[t][n])
            /\ heap[t].block_patterns =
                   call[t].block_patterns \o Repeat(PluginPattern, Appends(log[t]))
            /\ \A i \in 1..Len(built[t]) :
                   /\ built[t][i].context.owner = t
                   /\ Owned(t, built[t][i].block_patterns)
                   /\ Owned(t, built[t][i].inline_patterns)
                   /\ Owned(t, built[t][i].post_processors)
            /\ Done(t) =>
                   /\ pc[t] = "returned"
                   /\ result[t] = OwnParser(t, Appends(Snapshot(t)))

C6_Witness ==
    /\ callers = Invocations
    /\ \A t \in Invocations :
           /\ pc[t] = "running"
           /\ Len(stack[t]) >= 2
           /\ Appends(log[t]) >= 1
           /\ seen[t] = Len(filters)
    /\ call[1].block_patterns # <<>>
    /\ call[2].block_patterns = <<>>
    /\ call[1].action # call[2].action

\* The outcome of an invocation as a state predicate: nothing given back
\* before the end, a Parser or an error at the end, and over delegating
\* filters every stage run once.
Outcomes ==
    \A t \in callers :
        /\ pc[t] = "idle" => result[t] = None
        /\ pc[t] = "running" => (result[t] = None /\ ENABLED Step(t))
        /\ pc[t] = "returned" => result[t].tag = "parser"
        /\ pc[t] = "raised" => result[t].tag = "error"
        /\ (Done(t) /\ AllDelegate(t)) =>
               /\ pc[t] = "returned"
               /\ Len(log[t]) = seen[t] + 1
               /\ \A k \in 1..seen[t] : Count(log[t], Snapshot(t)[k]) = 1
               /\ Count(log[t], BaseOf(t)) = 1
               /\ Len(built[t]) = 1
               /\ built[t][1].by = BaseOf(t)
               /\ result[t] = built[t][1]

\* C7: every invocation ends, and ends having either returned a Parser or
\* raised an error, never both and never neither; until then it has given
\* nothing back and can take its next step; and when every filter
\* delegates, every filter has run exactly once, the base action has run
\* exactly once and the Parser returned is the one the base action built.
C7_OneOutcomeNoFilterSkipped ==
    /\ []Outcomes
    /\ \A t \in Invocations : (pc[t] = "running") ~> Done(t)

C7_Witness ==
    \E t \in callers :
        /\ pc[t] = "returned"
        /\ seen[t] = MaxFilters
        /\ AllDelegate(t)
        /\ Count(log[t], BaseOf(t)) = 1
        /\ result[t].by = BaseOf(t)
        /\ call[t].action = "test_double"

\* C8: the hook's filter list is the sequence of the functions handed to
\* the registration calls, in the order of those calls, duplicates kept;
\* and an invocation over delegating filters runs each function as many
\* times as it is on the list.
C8_RegistrationOrderKept ==
    /\ Len(filters) = Len(registered)
    /\ \A i \in 1..Len(filters) : filters[i] = Callable(registered[i], i)
    /\ \A t \in callers :
           (Done(t) /\ AllDelegate(t)) =>
               \A f \in FilterNames :
                   Cardinality({i \in 1..Len(log[t]) : log[t][i].name = f})
                       = Cardinality({k \in 1..seen[t] : registered[k] = f})

C8_Witness ==
    \E t \in callers :
        /\ pc[t] = "returned"
        /\ Len(registered) = MaxFilters
        /\ seen[t] = MaxFilters
        /\ registered[1] = "append"
        /\ registered[2] = "pass"
        /\ registered[3] = "append"
        /\ Appends(log[t]) = 2

\* C10: an invocation runs only filters that were registered before it and
\* only the base action its own caller passed; its frames are pieces of the
\* chain composed from those filters around that action; the filter
\* registered last before it is its outermost stage; and when those filters
\* all delegate it runs exactly them, innermost the base action passed to it.
C10_ChainComposedPerInvocation ==
    \A t \in callers :
        pc[t] # "idle" =>
            /\ Range(log[t]) \subseteq Range(Snapshot(t)) \cup {BaseOf(t)}
            /\ \A i \in 1..Len(stack[t]) :
                   IsPrefix(stack[t][i].fn, <<BaseOf(t)>> \o Snapshot(t))
            /\ (Len(log[t]) >= 1 /\ seen[t] >= 1) => log[t][1] = filters[seen[t]]
            /\ \A i \in 1..Len(built[t]) :
                   built[t][i].by \in Range(Snapshot(t)) \cup {BaseOf(t)}
            /\ (Done(t) /\ AllDelegate(t)) =>
                   /\ log[t] = Stages(t)
                   /\ result[t].by = BaseOf(t)

C10_Witness ==
    \E t \in callers :
        /\ pc[t] = "returned"
        /\ seen[t] >= 1
        /\ seen[t] < Len(filters)
        /\ AllDelegate(t)
        /\ call[t].action = "test_double"
        /\ result[t].by = Callable("test_double", 0)
        /\ filters[Len(filters)] \notin Range(log[t])

Custom == {"Custom 403", "Custom 404"}

\* C9: a client request whose view raises permission-denied gets status 403
\* and one whose view raises not-found gets 404; under the URL configuration
\* with the site's handlers, such a request for one of the site's URLs gets
\* the site's custom page and one for a forum URL gets the forum's page; and
\* each of the site's decorated handlers, called with a request, answers a
\* forum URL with the forum's page and a site URL with its custom page.
C9_ErrorPages ==
    \A i \in 1..Len(responses) :
        LET e == responses[i]
            denied == View(e.url) = "PermissionDenied"
            missing == View(e.url) = "Http404"
        IN  /\ (e.via = "client" /\ denied) => e.response.status = 403
            /\ (e.via = "client" /\ missing) => e.response.status = 404
            /\ (e.via = "client" /\ urlconf = "urlswitherrorhandlers") =>
                   /\ (denied /\ e.url \in SiteUrls) =>
                          e.response.content = "Custom 403"
                   /\ (missing /\ e.url \in SiteUrls) =>
                          e.response.content = "Custom 404"
                   /\ e.url \in MisagoUrls => e.response.content \notin Custom
            /\ e.via = "mock_custom_403_error_page" =>
                   /\ e.response.status = 403
                   /\ e.url \in SiteUrls => e.response.content = "Custom 403"
                   /\ e.url \in MisagoUrls => e.response.content = "Misago 403"
            /\ e.via = "mock_custom_404_error_page" =>
                   /\ e.response.status = 404
                   /\ e.url \in SiteUrls => e.response.content = "Custom 404"
                   /\ e.url \in MisagoUrls => e.response.content = "Misago 404"

C9_Witness ==
    /\ urlconf = "urlswitherrorhandlers"
    /\ Len(responses) = 2
    /\ responses[1] = [via |-> "client", url |-> "raise_403",
                       response |-> Response(403, "Custom 403")]
    /\ responses[2] = [via |-> "mock_custom_404_error_page", url |-> "forum_index",
                       response |-> Response(404, "Misago 404")]

====
